---------------------------- MODULE Spec2Model ----------------------------
(***************************************************************************)
(* Model of the roughHeston class of hestonClass.ipynb.                    *)
(*                                                                         *)
(* Number representation.  A Python float is a fixed-point integer with    *)
(* quantum 1/SX; a Python complex is a pair <<re, im>> of such integers.   *)
(* A product of two fixed-point values is rounded back to the quantum      *)
(* (floor division by SX).  The weight matrices a_ and b_ are the exact    *)
(* integer products of their quantised factors (scales WA and WB), and a   *)
(* weighted sum is rounded once, when it is formed.  The library functions *)
(* x**alpha, x**(alpha+1), x**(1-alpha) and gamma are tabulated at the     *)
(* points the program evaluates them, for alpha = 0.6.  np.exp of a        *)
(* complex number is kept symbolic: the record [exp |-> z] with z the      *)
(* exact exponent at scale SX^3.                                           *)
(***************************************************************************)
EXTENDS Integers, Sequences, FiniteSets, TLC

\* ------------------------------------------------------------------ bounds
MaxN == 2        \* largest nbTimeSteps passed to the constructor
MaxEvals == 2    \* most integrand evaluations of one quad call

\* ---------------------------------------------------------- representation
SX == 1000       \* fixed-point quantum of float / complex values
SF == 100        \* quantum of frac and frac2
SP == 100        \* quantum of the tabulated powers
WB == SF * SP            \* scale of the entries of b_
WA == SF * SP * 10       \* scale of the entries of a_ (alpha is in tenths)

Threads == {1, 2}
SeqThreads == {1}

\* --------------------------------------------------- complex arithmetic
CZero == <<0, 0>>
CAdd(x, y) == <<x[1] + y[1], x[2] + y[2]>>
CSub(x, y) == <<x[1] - y[1], x[2] - y[2]>>
CMulI(x) == <<-x[2], x[1]>>
CMul(x, y) == <<(x[1] * y[1] - x[2] * y[2]) \div SX, (x[1] * y[2] + x[2] * y[1]) \div SX>>
RMul(r, x) == <<(r * x[1]) \div SX, (r * x[2]) \div SX>>
WMul(w, x) == <<w * x[1], w * x[2]>>
CDivInt(x, d) == <<x[1] \div d, x[2] \div d>>

RECURSIVE CSum(_, _)
\* f[0] + ... + f[m-1], the accumulation `res = 0; for j in range(m): res += ...`
CSum(f, m) == IF m = 0 THEN CZero ELSE CAdd(CSum(f, m - 1), f[m - 1])

RECURSIVE ISum(_, _)
ISum(f, m) == IF m = 0 THEN 0 ELSE ISum(f, m - 1) + f[m - 1]

\* ------------------------------------------------------ library tables
\* m ** alpha, alpha = 0.6, at scale SP  (0 ** 0.6 = 0.0)
PowAlphaTab == <<100, 152, 193, 230, 263, 293>>
PowAlpha(m) == IF m = 0 THEN 0 ELSE PowAlphaTab[m]
\* m ** (alpha + 1) at scale SP
PowAlpha1Tab == <<100, 303, 580, 919, 1313, 1758, 2250>>
PowAlpha1(m) == IF m = 0 THEN 0 ELSE PowAlpha1Tab[m]
\* (T/n) ** alpha at scale SX, for T in {0., 1.}
DtPowTab == <<1000, 660, 517, 435, 381, 341>>
DtPowAlpha(T, nn) == IF T = 0 THEN 0 ELSE DtPowTab[nn]
\* (T - time_grid[i]) ** (1 - alpha) at scale SX: ((n - i)/n) ** 0.4 for T = 1.
TailPowTab == << <<1000>>, <<758, 1000>>, <<644, 850, 1000>>,
                 <<574, 758, 891, 1000>>, <<525, 693, 815, 915, 1000>>,
                 <<488, 644, 758, 850, 930, 1000>> >>
TailPow(T, nn, m) == IF T = 0 \/ m = 0 THEN 0 ELSE TailPowTab[nn][m]
\* gamma(alpha + 2.), gamma(alpha + 1.), gamma(1. - alpha) at scale SX
GammaAlpha2 == 1430
GammaAlpha1 == 894
Gamma1mAlpha == 2218

\* ------------------------------------------------------------ inputs
\* The parameter cell of the notebook, at scale SX (alpha in tenths).
BaseParams == [S0 |-> 1000, kappa |-> 300, nu |-> 300, theta |-> 20,
               alpha |-> 6, V0 |-> 20, rho |-> -700]
ParamSets == { BaseParams,
               [BaseParams EXCEPT !.rho = 2000],
               [BaseParams EXCEPT !.V0 = 0],
               [BaseParams EXCEPT !.S0 = 0],
               [BaseParams EXCEPT !.nu = 0] }
StepCounts == -1 .. MaxN
Maturities == {0, 1000}
\* Fourier arguments u - 0.5j
FourierArgs == { <<0, -500>>, <<1000, -500>>, <<2000, -500>> }
QuadNodes == {1000, 2000}
UpLims == {1000, 5000}
LogMoneyness == {-100}
QuadStatus == {0, 1}     \* ier of QUADPACK: 0 converged, 1 budget exhausted

VARIABLES engine, self, a_, b_, h_hat, pc, op, arg, kidx, ret, call, evals, writes, reads, stale

vars == <<engine, self, a_, b_, h_hat, pc, op, arg, kidx, ret, call, evals, writes, reads, stale>>

None == [none |-> TRUE]
NoArray == [i \in {-1} |-> 0]

\* ------------------------------------------------------- roughHeston
\* The fields __init__ sets before the weight matrices.
Fields(nbTimeSteps, hp, T) ==
  [T |-> T, n |-> nbTimeSteps, dt |-> T \div nbTimeSteps,
   time_grid |-> [i \in 0 .. nbTimeSteps |-> (i * T) \div nbTimeSteps],
   S0 |-> hp.S0, kappa |-> hp.kappa, nu |-> hp.nu, theta |-> hp.theta,
   alpha |-> hp.alpha, V0 |-> hp.V0, rho |-> hp.rho,
   frac |-> (DtPowAlpha(T, nbTimeSteps) * SF) \div GammaAlpha2,
   frac2 |-> (DtPowAlpha(T, nbTimeSteps) * SF) \div GammaAlpha1,
   frac_bar |-> (SX * SX) \div Gamma1mAlpha]

\* F(a, x) = -0.5*(a*a + 1j*a) - (kappa - 1j*a*rho*nu)*x + 0.5*nu*nu*x*x
F(s, a, x) ==
  LET t1 == RMul(-(SX \div 2), CAdd(CMul(a, a), CMulI(a)))
      c  == CSub(<<s.kappa, 0>>, RMul(s.nu, RMul(s.rho, CMulI(a))))
      t2 == CMul(c, x)
      hn == (((((SX \div 2) * s.nu) \div SX) * s.nu) \div SX)
      t3 == CMul(RMul(hn, x), x)
  IN CAdd(CSub(t1, t2), t3)

\* a(j, k), at scale WA
a(s, j, k) ==
  LET res == IF j = 0
             THEN 10 * PowAlpha1(k - 1) - (10 * k - s.alpha - 10) * PowAlpha(k)
             ELSE IF j = k
                  THEN 10 * SP
                  ELSE 10 * (PowAlpha1(k + 1 - j) + PowAlpha1(k - 1 - j) - 2 * PowAlpha1(k - j))
  IN s.frac * res

fill_a(s) ==
  [j \in 0 .. s.n |-> [k \in 0 .. s.n |-> IF k >= 1 /\ j <= k THEN a(s, j, k) ELSE 0]]

\* (mutant) the two powers of b(j, k) taken one step too far
bShifted(s, j, k) == s.frac2 * (PowAlpha(k - j + 1) - PowAlpha(k - j))

\* b(j, k), at scale WB
b(s, j, k) == s.frac2 * (PowAlpha(k - j) - PowAlpha(k - j - 1))

fill_b(s) ==
  [j \in 0 .. s.n - 1 |-> [k \in 0 .. s.n |-> IF k >= 1 /\ j < k THEN b(s, j, k) ELSE 0]]

\* range(k) of the two summation loops
JRange(k) == 0 .. k - 1

h_P(s, B, h, x, k) ==
  CDivInt(CSum([j \in JRange(k) |-> WMul(B[j][k], F(s, x, h[j]))], k), WB)

sum_a(s, A, h, x, k) ==
  CDivInt(CSum([j \in JRange(k) |-> WMul(A[j][k], F(s, x, h[j]))], k), WA)

\* (mutant) the array is allocated on the first call only and reused afterwards
NewHHatLazy(nn) == IF h_hat = NoArray THEN [i \in 0 .. nn |-> CZero] ELSE h_hat

\* np.zeros((self.n + 1), dtype=complex)
NewHHat(nn) == [i \in 0 .. nn |-> CZero]

\* the value fill_h stores at step k
HHatK(s, A, B, h, x, k) ==
  CAdd(sum_a(s, A, h, x, k),
       CDivInt(WMul(A[k][k], F(s, x, h_P(s, B, h, x, k))), WA))

\* (mutant) the store lands one index low
StoreHOffByOne(h, k, v) == [h EXCEPT ![k - 1] = v]

\* self.h_hat[k] = v
StoreH(h, k, v) == [h EXCEPT ![k] = v]

\* range(1, self.n + 1): first value and successor
FirstK == 1
\* (mutant) the loop advances by two and skips every other step
NextKSkip(k) == k + 2
NextK(k) == k + 1

\* fill_h(x) run on its own from a fresh array, after its first k steps
RECURSIVE HRun(_, _, _, _, _)
HRun(s, A, B, x, k) ==
  IF k = 0 THEN [i \in 0 .. s.n |-> CZero]
  ELSE LET h == HRun(s, A, B, x, k - 1)
       IN [h EXCEPT ![k] = HHatK(s, A, B, h, x, k)]

\* trapz(self.h_hat, self.time_grid)
trapz(s, h) ==
  CSum([i \in 0 .. s.n - 1 |->
          CDivInt(WMul(s.time_grid[i + 1] - s.time_grid[i], CAdd(h[i + 1], h[i])), 2 * SX)],
       s.n)

\* frac_bar * np.sum(y) / (1. - alpha)
frac_integral(s, h) ==
  LET y == [i \in 0 .. s.n - 1 |->
              RMul(TailPow(s.T, s.n, s.n - i) - TailPow(s.T, s.n, s.n - i - 1), h[i])]
  IN CDivInt(WMul(10, RMul(s.frac_bar, CSum(y, s.n))), 10 - s.alpha)

\* np.exp(kappa*theta*integral + V0*frac_integral), the exponent at scale SX^3
CharValue(s, h) ==
  [exp |-> CAdd(WMul(s.kappa * s.theta, trapz(s, h)), WMul(s.V0 * SX, frac_integral(s, h)))]

\* ------------------------------------------------------------- state
NoCall == [k |-> 0, upLim |-> 0, lo |-> 0, hi |-> <<"none", 0>>, ier |-> 0]

Init ==
  /\ engine = "new"
  /\ self = None
  /\ a_ = NoArray
  /\ b_ = NoArray
  /\ h_hat = NoArray
  /\ pc = [t \in Threads |-> "idle"]
  /\ op = [t \in Threads |-> "none"]
  /\ arg = [t \in Threads |-> CZero]
  /\ kidx = [t \in Threads |-> 0]
  /\ ret = [t \in Threads |-> None]
  /\ call = [t \in Threads |-> NoCall]
  /\ evals = [t \in Threads |-> <<>>]
  /\ writes = [t \in Threads |-> <<>>]
  /\ reads = [t \in Threads |-> {}]
  /\ stale = [t \in Threads |-> NoArray]

AllIdle == \A t \in Threads : pc[t] = "idle"

\* roughHeston(nbTimeSteps, heston_params, T).  T / n raises ZeroDivisionError
\* for n = 0; for n = -1 np.zeros(shape = (self.n, self.n + 1)) in fill_b raises
\* ValueError.  No other input is rejected.
Construct(nbTimeSteps, hp, T) ==
  /\ engine = "new"
  /\ IF nbTimeSteps < 1
     THEN /\ engine' = "raised"
          /\ UNCHANGED <<self, a_, b_>>
     ELSE /\ engine' = "ready"
          /\ self' = Fields(nbTimeSteps, hp, T)
          /\ a_' = fill_a(Fields(nbTimeSteps, hp, T))
          /\ b_' = fill_b(Fields(nbTimeSteps, hp, T))
  /\ UNCHANGED <<h_hat, pc, op, arg, kidx, ret, call, evals, writes, reads, stale>>

\* a caller enters fill_h(a)
CallFillH(t, x) ==
  /\ engine = "ready" /\ pc[t] = "idle"
  /\ pc' = [pc EXCEPT ![t] = "fill_h"]
  /\ op' = [op EXCEPT ![t] = "fill"]
  /\ arg' = [arg EXCEPT ![t] = x]
  /\ ret' = [ret EXCEPT ![t] = None]
  /\ call' = [call EXCEPT ![t] = NoCall]
  /\ evals' = [evals EXCEPT ![t] = <<>>]
  /\ UNCHANGED <<engine, self, a_, b_, h_hat, kidx, writes, reads, stale>>

\* a caller enters rHeston_char_function(a)
CallCharFunction(t, x) ==
  /\ engine = "ready" /\ pc[t] = "idle"
  /\ pc' = [pc EXCEPT ![t] = "fill_h"]
  /\ op' = [op EXCEPT ![t] = "char"]
  /\ arg' = [arg EXCEPT ![t] = x]
  /\ ret' = [ret EXCEPT ![t] = None]
  /\ call' = [call EXCEPT ![t] = NoCall]
  /\ evals' = [evals EXCEPT ![t] = <<>>]
  /\ UNCHANGED <<engine, self, a_, b_, h_hat, kidx, writes, reads, stale>>

\* self.h_hat = np.zeros((self.n + 1), dtype=complex)
FillHAlloc(t) ==
  /\ pc[t] = "fill_h"
  /\ h_hat' = NewHHat(self.n)
  /\ kidx' = [kidx EXCEPT ![t] = FirstK]
  /\ pc' = [pc EXCEPT ![t] = "loop"]
  /\ writes' = [writes EXCEPT ![t] = <<>>]
  /\ reads' = [reads EXCEPT ![t] = {}]
  /\ stale' = [stale EXCEPT ![t] = h_hat]
  /\ UNCHANGED <<engine, self, a_, b_, op, arg, ret, call, evals>>

\* what one iteration of the loop does to h_hat and the loop variable
FillHStepBody(t) ==
  /\ pc[t] = "loop" /\ kidx[t] <= self.n
  /\ h_hat' = StoreH(h_hat, kidx[t], HHatK(self, a_, b_, h_hat, arg[t], kidx[t]))
  /\ kidx' = [kidx EXCEPT ![t] = NextK(kidx[t])]
  /\ writes' = [writes EXCEPT ![t] = Append(writes[t], kidx[t])]
  /\ reads' = [reads EXCEPT ![t] = JRange(kidx[t])]
  /\ UNCHANGED <<engine, self, pc, op, arg, ret, call, evals, stale>>

\* (mutant) the corrector sum is accumulated in place, into row 0 of a_
FillHStepInPlace(t) ==
  /\ FillHStepBody(t)
  /\ a_' = [a_ EXCEPT ![0][kidx[t]] = @ + sum_a(self, a_, h_hat, arg[t], kidx[t])[1]]
  /\ UNCHANGED b_

\* one iteration of `for k in range(1, self.n + 1)`
FillHStep(t) ==
  /\ FillHStepBody(t)
  /\ UNCHANGED <<a_, b_>>

\* fill_h called on its own returns None
FillHReturn(t) ==
  /\ pc[t] = "loop" /\ kidx[t] > self.n /\ op[t] = "fill"
  /\ pc' = [pc EXCEPT ![t] = "idle"]
  /\ UNCHANGED <<engine, self, a_, b_, h_hat, op, arg, kidx, ret, call, evals, writes, reads, stale>>

\* rHeston_char_function after fill_h: the two integrals and the exponential
CharReturn(t) ==
  /\ pc[t] = "loop" /\ kidx[t] > self.n /\ op[t] = "char"
  /\ ret' = [ret EXCEPT ![t] = CharValue(self, h_hat)]
  /\ pc' = [pc EXCEPT ![t] = "idle"]
  /\ UNCHANGED <<engine, self, a_, b_, h_hat, op, arg, kidx, call, evals, writes, reads, stale>>

\* the upper limit rHeston_Call hands to quad
RHestonUpper(upLim) == <<"fin", 5000>>

\* rHeston_Call(k, upLim) up to the call of quad
CallRHeston(t, k, upLim) ==
  /\ engine = "ready" /\ pc[t] = "idle"
  /\ pc' = [pc EXCEPT ![t] = "quad"]
  /\ op' = [op EXCEPT ![t] = "rcall"]
  /\ call' = [call EXCEPT ![t] = [k |-> k, upLim |-> upLim, lo |-> 0,
                                  hi |-> RHestonUpper(upLim), ier |-> 0]]
  /\ evals' = [evals EXCEPT ![t] = <<>>]
  /\ ret' = [ret EXCEPT ![t] = None]
  /\ UNCHANGED <<engine, self, a_, b_, h_hat, arg, kidx, writes, reads, stale>>

\* quad samples nodes of [lo, hi], here in ascending order
NodeInRange(c, e, u) ==
  /\ u > c.lo
  /\ c.hi[1] = "fin" => u < c.hi[2]
  /\ Len(e) > 0 => u > e[Len(e)][1]

\* quad evaluates func(u): rHeston_char_function(u - 0.5*1j)
QuadEval(t, u) ==
  /\ pc[t] = "quad" /\ Len(evals[t]) < MaxEvals
  /\ NodeInRange(call[t], evals[t], u)
  /\ arg' = [arg EXCEPT ![t] = <<u, -(SX \div 2)>>]
  /\ pc' = [pc EXCEPT ![t] = "fill_h"]
  /\ UNCHANGED <<engine, self, a_, b_, h_hat, op, kidx, ret, call, evals, writes, reads, stale>>

\* func(u) returns to quad
QuadEvalDone(t) ==
  /\ pc[t] = "loop" /\ kidx[t] > self.n /\ op[t] = "rcall"
  /\ evals' = [evals EXCEPT ![t] = Append(evals[t], <<arg[t][1], CharValue(self, h_hat)>>)]
  /\ pc' = [pc EXCEPT ![t] = "quad"]
  /\ UNCHANGED <<engine, self, a_, b_, h_hat, op, arg, kidx, ret, call, writes, reads, stale>>

\* self.S0 - np.sqrt(self.S0*K) * integ[0] / np.pi, kept symbolic
Price(s, c, e) == [kind |-> "price", S0 |-> s.S0, k |-> c.k, lo |-> c.lo, hi |-> c.hi, integ |-> e]

\* quad returns (value, abserr) with status ier; the call returns from integ[0]
QuadReturn(t, ier) ==
  /\ pc[t] = "quad" /\ Len(evals[t]) > 0
  /\ call' = [call EXCEPT ![t].ier = ier]
  /\ ret' = [ret EXCEPT ![t] = Price(self, call[t], evals[t])]
  /\ pc' = [pc EXCEPT ![t] = "idle"]
  /\ UNCHANGED <<engine, self, a_, b_, h_hat, op, arg, kidx, evals, writes, reads, stale>>

\* heston_char_function(u), a closed form of u and the fields, kept symbolic
heston_char_function(s, u) ==
  [heston |-> u, kappa |-> s.kappa, rho |-> s.rho, nu |-> s.nu, theta |-> s.theta,
   V0 |-> s.V0, S0 |-> s.S0, T |-> s.T]

\* heston_Call(k) up to the call of quad
CallHeston(t, k) ==
  /\ engine = "ready" /\ pc[t] = "idle"
  /\ pc' = [pc EXCEPT ![t] = "hquad"]
  /\ op' = [op EXCEPT ![t] = "hcall"]
  /\ call' = [call EXCEPT ![t] = [k |-> k, upLim |-> 0, lo |-> 0, hi |-> <<"inf", 0>>, ier |-> 0]]
  /\ evals' = [evals EXCEPT ![t] = <<>>]
  /\ ret' = [ret EXCEPT ![t] = None]
  /\ UNCHANGED <<engine, self, a_, b_, h_hat, arg, kidx, writes, reads, stale>>

HQuadEval(t, u) ==
  /\ pc[t] = "hquad" /\ Len(evals[t]) < MaxEvals
  /\ NodeInRange(call[t], evals[t], u)
  /\ evals' = [evals EXCEPT ![t] = Append(evals[t], <<u, heston_char_function(self, <<u, -(SX \div 2)>>)>>)]
  /\ UNCHANGED <<engine, self, a_, b_, h_hat, pc, op, arg, kidx, ret, call, writes, reads, stale>>

HQuadReturn(t, ier) ==
  /\ pc[t] = "hquad" /\ Len(evals[t]) > 0
  /\ call' = [call EXCEPT ![t].ier = ier]
  /\ ret' = [ret EXCEPT ![t] = Price(self, call[t], evals[t])]
  /\ pc' = [pc EXCEPT ![t] = "idle"]
  /\ UNCHANGED <<engine, self, a_, b_, h_hat, op, arg, kidx, evals, writes, reads, stale>>

\* ------------------------------------------------- specifications
\* One caller: the calls on the engine follow one another.
Next ==
  \/ \E nb \in StepCounts, hp \in ParamSets, T \in Maturities : Construct(nb, hp, T)
  \/ \E t \in SeqThreads :
       \/ \E x \in FourierArgs : CallFillH(t, x)
       \/ \E x \in FourierArgs : CallCharFunction(t, x)
       \/ \E k \in LogMoneyness, upLim \in UpLims : CallRHeston(t, k, upLim)
       \/ \E k \in LogMoneyness : CallHeston(t, k)
       \/ FillHAlloc(t)
       \/ FillHStep(t)
       \/ FillHReturn(t)
       \/ CharReturn(t)
       \/ \E u \in QuadNodes : QuadEval(t, u)
       \/ QuadEvalDone(t)
       \/ \E ier \in QuadStatus : QuadReturn(t, ier)
       \/ \E u \in QuadNodes : HQuadEval(t, u)
       \/ \E ier \in QuadStatus : HQuadReturn(t, ier)

Spec == Init /\ [][Next]_vars

\* Two callers evaluate rHeston_char_function on one engine built from the
\* notebook's parameters; their steps interleave.
InitConc ==
  \E nb \in 1 .. MaxN :
    /\ engine = "ready"
    /\ self = Fields(nb, BaseParams, 1000)
    /\ a_ = fill_a(Fields(nb, BaseParams, 1000))
    /\ b_ = fill_b(Fields(nb, BaseParams, 1000))
    /\ h_hat = NoArray
    /\ pc = [t \in Threads |-> "idle"]
    /\ op = [t \in Threads |-> "none"]
    /\ arg = [t \in Threads |-> CZero]
    /\ kidx = [t \in Threads |-> 0]
    /\ ret = [t \in Threads |-> None]
    /\ call = [t \in Threads |-> NoCall]
    /\ evals = [t \in Threads |-> <<>>]
    /\ writes = [t \in Threads |-> <<>>]
    /\ reads = [t \in Threads |-> {}]
    /\ stale = [t \in Threads |-> NoArray]

NextConc ==
  \E t \in Threads :
    \/ \E x \in FourierArgs : CallCharFunction(t, x)
    \/ FillHAlloc(t)
    \/ FillHStep(t)
    \/ CharReturn(t)

SpecConc == InitConc /\ [][NextConc]_vars

\* ----------------------------------------------------------- claims
Valid(s) ==
  /\ s.n >= 1 /\ s.T > 0
  /\ 5 < s.alpha /\ s.alpha < 10
  /\ -SX <= s.rho /\ s.rho <= SX
  /\ s.S0 > 0 /\ s.V0 > 0 /\ s.nu > 0

\* C1: the upper integration limit rHeston_Call passes to the quadrature is
\* the upLim its caller supplied (and the lower limit is 0).
C1_UpperLimitIsUpLim ==
  \A t \in Threads :
    op[t] = "rcall" => call[t].lo = 0 /\ call[t].hi = <<"fin", call[t].upLim>>

\* C2: a characteristic-function evaluation that ran concurrently with another
\* one at a distinct Fourier argument returns the value it returns when run
\* alone.
C2_ConcurrentEvaluationsIndependent ==
  \A t \in Threads :
    (pc[t] = "idle" /\ op[t] = "char" /\ ret[t] # None
       /\ \A o \in Threads \ {t} : op[o] = "char" /\ arg[o] # arg[t])
    => ret[t] = CharValue(self, HRun(self, a_, b_, arg[t], self.n))

\* C3: an engine that came out of the constructor has n >= 1, T > 0 and model
\* parameters within their invariants; any other input made __init__ raise.
C3_InvalidInputRejected == engine = "ready" => Valid(self)

\* C4: a pricing call whose quadrature did not converge (ier # 0) ends in an
\* error outcome, not in a price.
C4_NonConvergenceReported ==
  \A t \in Threads :
    (pc[t] = "idle" /\ op[t] \in {"rcall", "hcall"} /\ ret[t] # None /\ call[t].ier # 0)
    => ret[t].kind = "error"

\* C5: a_ and b_ hold what the constructor's fill_a and fill_b computed, and
\* no step of any later operation changes an entry of either.
C5_WeightsFrozen ==
  /\ [](engine = "ready" => a_ = fill_a(self) /\ b_ = fill_b(self))
  /\ [][engine = "ready" => a_' = a_ /\ b_' = b_]_vars

C5_Witness ==
  /\ engine = "ready" /\ a_[1][1] > 0 /\ b_[0][1] > 0
  /\ \E t \in Threads : pc[t] = "idle" /\ op[t] = "rcall" /\ ret[t] # None
                        /\ Len(evals[t]) = MaxEvals

\* C6: whenever h_hat is allocated, h_hat[0] is 0: after the allocation, after
\* every step of the recursion and at assembly.
C6_HHatZeroAtOrigin == h_hat # NoArray => h_hat[0] = CZero

C6_Witness ==
  /\ h_hat # NoArray /\ h_hat[0] = CZero
  /\ \E t \in Threads : pc[t] = "loop" /\ kidx[t] > self.n
                        /\ \A k \in 1 .. self.n : h_hat[k] # CZero

\* C7: for every k in 1..n the stored predictor weights b_[0,k], ..., b_[k-1,k]
\* sum to C_b * k^alpha, C_b = frac2 = dt^alpha / gamma(alpha + 1).
C7_PredictorColumnSum ==
  engine = "ready" =>
    \A k \in 1 .. self.n :
      ISum([j \in 0 .. k - 1 |-> b_[j][k]], k) = self.frac2 * PowAlpha(k)

C7_Witness ==
  /\ engine = "ready" /\ self.n >= 2 /\ self.T > 0
  /\ b_[0][self.n] > 0 /\ b_[self.n - 1][self.n] > b_[0][self.n]

\* C9: fill_h writes h_hat[1], ..., h_hat[n] in ascending order, each once and
\* none skipped; step k reads only indices below k, each holding its final
\* value; the loop ends after exactly n steps.
C9_AscendingRecursion ==
  \A t \in Threads :
    pc[t] = "loop" =>
      /\ kidx[t] \in 1 .. self.n + 1
      /\ writes[t] = [i \in 1 .. kidx[t] - 1 |-> i]
      /\ reads[t] \subseteq 0 .. kidx[t] - 2
      /\ \A j \in 0 .. kidx[t] - 1 :
           h_hat[j] = HRun(self, a_, b_, arg[t], self.n)[j]
      /\ kidx[t] > self.n => Len(writes[t]) = self.n

C9_Witness ==
  \E t \in Threads :
    /\ pc[t] = "loop" /\ self.n >= 2 /\ kidx[t] = self.n + 1
    /\ writes[t] = [i \in 1 .. self.n |-> i]
    /\ h_hat[self.n] # h_hat[1] /\ h_hat[1] # CZero

\* C10: with calls following one another, an evaluation at argument a sees
\* during its recursion exactly the array a run on a fresh engine sees (no
\* entry of an earlier evaluation survives the re-initialisation), and
\* rHeston_char_function(a) returns the value of that fresh run.
C10_HistoryIndependent ==
  \A t \in Threads :
    /\ pc[t] = "loop" /\ kidx[t] <= self.n + 1
         => h_hat = HRun(self, a_, b_, arg[t], kidx[t] - 1)
    /\ pc[t] = "idle" /\ op[t] = "char" /\ ret[t] # None
         => ret[t] = CharValue(self, HRun(self, a_, b_, arg[t], self.n))

C10_Witness ==
  \E t \in Threads :
    /\ pc[t] = "idle" /\ op[t] = "char" /\ ret[t] # None
    /\ stale[t] # NoArray /\ stale[t] # h_hat /\ stale[t][self.n] # CZero
    /\ ret[t] # CharValue(self, stale[t])

=============================================================================
